---- MODULE Spec2Model ----
(***************************************************************************)
(* Model of the chiptune MusicEngine (utils/MusicEngine.ts): the song      *)
(* table, the Web Audio parameter automation it drives, the transport      *)
(* (init / play / stop / setVolume / toggleMute) and the lookahead step    *)
(* scheduler, together with the timers of the JavaScript runtime.          *)
(*                                                                         *)
(* Units.  Time is counted in ticks of 1/77 ms, so that the step duration  *)
(* 60 / tempo / 2 s is a whole number for every tempo of the table         *)
(* (150, 110, 140, 80).  Frequencies are in 1/100 Hz, gains and volumes    *)
(* in 1/10000, duty cycles in 1/1000.                                      *)
(***************************************************************************)
EXTENDS Integers, Sequences, FiniteSets, TLC

\* ------------------------------------------------------------------ units
TicksPerMs == 7 * 11
Ms(n) == n * TicksPerMs
GainUnit == 10 * 1000

\* ------------------------------------------------- step and note constants
R == 0
S == -1
K == 1
SN == 2
HH == 3
OH == 4
_C2 == 6541
_Cs2 == 6930
_D2 == 7342
_Eb2 == 7778
_E2 == 8241
_F2 == 8731
_Fs2 == 9250
_G2 == 9800
_Gs2 == 10383
_A2 == 11000
_Bb2 == 11654
_B2 == 12347
_C3 == 13081
_Cs3 == 13859
_D3 == 14683
_Eb3 == 15556
_E3 == 16481
_F3 == 17461
_Fs3 == 18500
_G3 == 19600
_Gs3 == 20765
_A3 == 22000
_Bb3 == 23308
_B3 == 24694
_C4 == 26163
_Cs4 == 27718
_D4 == 29366
_Eb4 == 31113
_E4 == 32963
_F4 == 34923
_Fs4 == 36999
_G4 == 39200
_Gs4 == 41530
_A4 == 44000
_Bb4 == 46616
_B4 == 49388
_C5 == 52325
_Cs5 == 55437
_D5 == 58733
_Eb5 == 62225
_E5 == 65925
_F5 == 69846
_Fs5 == 73999
_G5 == 78399
_Gs5 == 83061
_A5 == 88000
_Bb5 == 93233
_B5 == 98777

SONG_game ==
  [ tempo |-> 150,
    pulse1Duty |-> 250, pulse2Duty |-> 125,
    pulse1Vol |-> 1050, pulse2Vol |-> 660,
    triVol |-> 900, noiseVol |-> 540,
    pulse1 |-> <<
        _D5, _E5, _F5, _G5, _A5, S, S, _G5,
        _F5, _E5, _D5, _Cs5, _D5, S, S, R,
        _Bb4, S, _D5, _F5, S, S, _D5, _Bb4,
        _A4, S, _Cs5, _E5, S, S, _D5, _Cs5,
        _D5, _E5, _F5, _A5, _Bb5, S, _A5, _G5,
        _F5, _E5, _C5, _E5, _G5, S, _A5, _G5,
        _Bb5, _A5, _G5, _F5, _D5, _Bb4, _D5, _F5,
        _E5, _Cs5, _A4, _Cs5, _E5, _Cs5, _D5, S >>,
    pulse2 |-> <<
        _D4, _A4, _D4, _A4, _F4, _A4, _D4, _A4,
        _D4, _A4, _F4, _A4, _D4, _A4, _D4, _A4,
        _Bb3, _F4, _Bb3, _F4, _D4, _F4, _Bb3, _F4,
        _A3, _E4, _A3, _E4, _Cs4, _E4, _A3, _E4,
        _D4, _A4, _D4, _A4, _F4, _A4, _D4, _A4,
        _C4, _G4, _C4, _G4, _E4, _G4, _C4, _G4,
        _Bb3, _F4, _D4, _F4, _Bb3, _F4, _D4, _F4,
        _A3, _E4, _Cs4, _E4, _A3, _Cs4, _D4, S >>,
    triangle |-> <<
        _D2, _D3, _A2, _D3, _D2, _D3, _A2, _D3,
        _D2, _F2, _A2, _D3, _A2, _F2, _D2, _D3,
        _Bb2, _Bb3, _F2, _Bb3, _Bb2, _Bb3, _F2, _Bb2,
        _A2, _A3, _E2, _A3, _A2, _A3, _E2, _A3,
        _D2, _D3, _A2, _D3, _D2, _D3, _F2, _D3,
        _C3, _C2, _G2, _C3, _C2, _E2, _G2, _C3,
        _Bb2, _Bb3, _F2, _Bb3, _Bb2, _D3, _F2, _Bb2,
        _A2, _A3, _E2, _A3, _A2, _E2, _D2, S >>,
    noise |-> <<
        K, HH, SN, HH, K, K, SN, HH,
        K, HH, SN, HH, K, K, SN, HH,
        K, HH, SN, HH, K, HH, SN, HH,
        K, HH, SN, HH, K, K, SN, OH,
        K, HH, SN, HH, K, K, SN, HH,
        K, HH, SN, HH, K, HH, SN, HH,
        K, HH, SN, HH, K, K, SN, HH,
        K, K, SN, HH, K, K, SN, OH >> ]

SONG_menu ==
  [ tempo |-> 110,
    pulse1Duty |-> 250, pulse2Duty |-> 500,
    pulse1Vol |-> 750, pulse2Vol |-> 450,
    triVol |-> 750, noiseVol |-> 240,
    pulse1 |-> <<
        _A4, S, S, _C5, S, _E5, S, S,
        _E5, S, _D5, S, _C5, S, _B4, S,
        _A4, S, S, _F4, S, _A4, S, _C5,
        _B4, S, S, _Gs4, S, _E4, S, S,
        _A4, S, S, _E5, S, S, _A5, S,
        S, _F5, _D5, S, _A4, S, S, _D5,
        _B4, S, _D5, S, _G5, S, S, _D5,
        _E5, S, S, _Gs4, _B4, S, _E5, S >>,
    pulse2 |-> <<
        R, R, _E4, S, S, S, R, R,
        R, R, _A4, S, S, S, R, R,
        R, R, _C4, S, S, S, R, R,
        R, R, _E4, S, S, S, R, R,
        R, R, _C5, S, S, S, R, R,
        R, R, _A4, S, S, S, R, R,
        R, R, _D5, S, S, S, R, R,
        R, R, _B4, S, S, S, R, R >>,
    triangle |-> <<
        _A2, S, _E3, S, _A2, S, _E3, S,
        _A2, S, _C3, S, _E3, S, _A2, S,
        _F2, S, _C3, S, _F2, S, _A2, S,
        _E2, S, _B2, S, _E3, S, _Gs2, S,
        _A2, S, _E3, S, _A3, S, _E3, S,
        _D3, S, _A2, S, _D3, S, _F2, S,
        _G2, S, _D3, S, _B2, S, _G3, S,
        _E2, S, _B2, S, _Gs2, S, _E3, S >>,
    noise |-> <<
        R, R, HH, R, R, R, HH, R,
        R, R, HH, R, R, R, HH, R,
        R, R, HH, R, R, R, HH, R,
        R, R, HH, R, R, R, HH, R,
        R, R, HH, R, R, R, HH, R,
        R, R, HH, R, R, R, HH, R,
        R, R, HH, R, R, R, HH, R,
        R, R, HH, R, R, R, HH, R >> ]

SONG_score ==
  [ tempo |-> 140,
    pulse1Duty |-> 250, pulse2Duty |-> 250,
    pulse1Vol |-> 900, pulse2Vol |-> 660,
    triVol |-> 750, noiseVol |-> 360,
    pulse1 |-> <<
        _C5, _E5, _G5, S, _E5, _G5, _A5, S,
        _B4, S, _G4, S, _D5, _G5, _B4, S,
        _A4, _G4, _E4, S, _F4, S, _A4, S,
        _G4, S, _E4, S, _C5, S, S, S >>,
    pulse2 |-> <<
        _E4, _G4, _C5, S, _G4, _C5, _E5, S,
        _D4, S, _B3, S, _B4, _D5, _G4, S,
        _E4, _C4, _A3, S, _A3, S, _C4, S,
        _B3, S, _G3, S, _E4, S, S, S >>,
    triangle |-> <<
        _C3, _G3, _C3, _E3, _C3, _G3, _E3, _C3,
        _G2, _D3, _G3, _D3, _G2, _B2, _D3, _G3,
        _A2, _E3, _A3, _E3, _F2, _C3, _F3, _C3,
        _G2, _D3, _B2, _G2, _C3, S, S, S >>,
    noise |-> <<
        K, HH, SN, HH, K, HH, SN, HH,
        K, HH, SN, HH, K, HH, SN, HH,
        K, HH, SN, HH, K, HH, SN, HH,
        K, HH, SN, HH, K, R, R, R >> ]

SONG_fail ==
  [ tempo |-> 80,
    pulse1Duty |-> 500, pulse2Duty |-> 500,
    pulse1Vol |-> 660, pulse2Vol |-> 450,
    triVol |-> 600, noiseVol |-> 150,
    pulse1 |-> <<
        _D5, S, S, S, _F5, S, S, S,
        _E5, S, S, S, _Cs5, S, S, S,
        _D5, S, S, S, _Bb4, S, S, S,
        _A4, S, S, S, _D4, S, S, S >>,
    pulse2 |-> <<
        _A4, S, S, S, _D4, S, S, S,
        _A3, S, S, S, _A3, S, S, S,
        _F4, S, S, S, _D4, S, S, S,
        _E4, S, S, S, _A3, S, S, S >>,
    triangle |-> <<
        _D2, S, S, S, _D3, S, S, S,
        _A2, S, S, S, _A2, S, S, S,
        _Bb2, S, S, S, _F2, S, S, S,
        _A2, S, S, S, _D2, S, S, S >>,
    noise |-> <<
        R, R, R, R, R, R, R, R,
        R, R, R, R, R, R, R, R,
        R, R, R, R, R, R, R, R,
        R, R, R, R, R, R, R, R >> ]

\* A table whose game track has lost the last step of its noise channel.
SONGS_ShortNoise ==
  [ game |-> [SONG_game EXCEPT !.noise = SubSeq(@, 1, Len(@) - 1)],
    menu |-> SONG_menu, score |-> SONG_score, fail |-> SONG_fail ]

\* The compiled-in song table.
SONGS ==
  [ game |-> SONG_game, menu |-> SONG_menu, score |-> SONG_score, fail |-> SONG_fail ]

\* SONGS is an object literal, so SONGS[trackName] also finds the members every
\* object inherits from Object.prototype: functions and objects, all truthy,
\* none of them a SongData.
InheritedNames == {"constructor", "toString", "valueOf", "hasOwnProperty"}

\* const song = SONGS[trackName]: the track key, the inherited member, or "undefined".
Lookup(trackName) ==
  IF trackName \in DOMAIN SONGS THEN trackName
  ELSE IF trackName \in InheritedNames THEN trackName
  ELSE "undefined"

\* Is the looked-up value a SongData of the table?
IsSongData(song) == song \in DOMAIN SONGS

\* ------------------------------------------------------ engine parameters
LOOKAHEAD == Ms(120)
SCHEDULE_INTERVAL == Ms(25)
DefaultVolume == 1050
N == 64

\* Delays written in the code, in ticks.
FadeIn == Ms(400)
FirstStepDelay == Ms(50)
FadeOut == Ms(300)
StopDelay == Ms(350)
Attack == Ms(5)
Release == Ms(3)
DrumStop == Ms(300)

\* ------------------------------------------------------------ bounds
MaxOps == 2
MaxAdvances == 2
MaxPauses == 3
MaxFadeOps == 3
MaxWaits == 2
MaxTimelyWaits == 5
MaxLagMs == 500
ShortDelayIntervals == 4
LongPauseMs == 1500

\* ------------------------------------------- AudioParam (Web Audio API)
\* A parameter is its current value and its automation events, ordered by time.
NewParam(v) == [val |-> v, evs |-> << >>]

\* param.value = v
AssignValue(p, v) == [p EXCEPT !.val = v]

\* cancelScheduledValues(t): removes every event at or after t.
cancelScheduledValues(p, t) ==
  [p EXCEPT !.evs = SelectSeq(p.evs, LAMBDA e : e.t < t)]

InsertEvent(evs, e) ==
  SelectSeq(evs, LAMBDA x : x.t <= e.t) \o << e >> \o SelectSeq(evs, LAMBDA x : x.t > e.t)

\* setValueAtTime(v, t)
setValueAtTime(p, v, t) ==
  [p EXCEPT !.evs = InsertEvent(p.evs, [k |-> "set", v |-> v, t |-> t])]

\* linearRampToValueAtTime(v, t)
linearRampToValueAtTime(p, v, t) ==
  [p EXCEPT !.evs = InsertEvent(p.evs, [k |-> "ramp", v |-> v, t |-> t])]

\* The value the audio thread computes for the parameter at time t.
ValueAt(p, t) ==
  LET past == SelectSeq(p.evs, LAMBDA e : e.t <= t)
      future == SelectSeq(p.evs, LAMBDA e : e.t > t)
  IN IF past = << >> THEN p.val
     ELSE LET a == past[Len(past)]
          IN IF future # << >> /\ future[1].k = "ramp"
             THEN a.v + ((future[1].v - a.v) * (t - a.t)) \div (future[1].t - a.t)
             ELSE a.v

\* The parameter once the audio clock has reached t: events that have taken
\* effect are folded into the value; the start of a ramp in progress is kept.
Settle(p, t) ==
  LET past == SelectSeq(p.evs, LAMBDA e : e.t <= t)
      future == SelectSeq(p.evs, LAMBDA e : e.t > t)
  IN [val |-> ValueAt(p, t),
      evs |-> IF past # << >> /\ future # << >> /\ future[1].k = "ramp"
              THEN << past[Len(past)] >> \o future
              ELSE future]

\* Events of a parameter that have not taken effect at time t.
PendingTimes(p, t) == {p.evs[i].t : i \in {j \in DOMAIN p.evs : p.evs[j].t > t}}

\* ------------------------------------------------------------- nodes
NoNode == [exists |-> FALSE]
Channels == {"pulse1", "pulse2", "tri"}
NoVoices == [c \in Channels |-> NoNode]

\* ------------------------------------------------------------- state
VARIABLES
  audioCtx,          \* "null", or "ctx": the AudioContext adopted or created
  masterGain,        \* NoNode, or [exists, gain]
  voices,            \* per tonal channel: NoNode, or the oscillator + gain pair
  noiseBuffer,       \* 0 (null), or the number of the buffer generated
  currentSong,       \* "null", or the value SONGS[trackName] gave
  currentTrackName,
  isPlaying,
  currentStep,
  nextStepTime,
  schedulerTimer,    \* 0 (null), or the handle of the interval timer
  volume,
  muted,
  now,               \* audioCtx.currentTime, also the clock of the timers
  intervals,         \* handles of the interval timers the runtime holds active
  timeouts,          \* deadlines of the pending setTimeout callbacks, in order
  drums,             \* percussive voices created and not yet self-stopped
  orphans,           \* automation still pending on voices already disposed
  lastOp,            \* history: the handler that ran last
  opCount,           \* history: number of public calls made after init
  advances,          \* history: number of clock advances
  created,           \* history: how often each shared resource was created, and
                     \*          whether the last init left no context or no master gain
  sessions,          \* history: number of session starts
  firstStepTime,     \* history: timestamp given to the session's first step
  stepsScheduled,    \* history: steps scheduled in the session so far
  lastNote           \* history: per channel, the last non-sustain step scheduled

engine == << audioCtx, masterGain, voices, noiseBuffer, currentSong, currentTrackName,
             isPlaying, currentStep, nextStepTime, schedulerTimer, volume, muted >>
runtime == << now, intervals, timeouts, drums, orphans >>
history == << lastOp, opCount, advances, created, sessions, firstStepTime,
              stepsScheduled, lastNote >>
vars == << engine, runtime, history >>

NoNote == [c \in Channels |-> [kind |-> "none", t |-> 0, after |-> "none"]]

\* if (!this.audioCtx || !this.masterGain) return;  negated
Ready == audioCtx # "null" /\ masterGain.exists

\* The handlers a caller invokes after init.
PublicCalls == {"play", "stop", "stopImmediate", "setVolume", "toggleMute"}

\* The record of a handler run, taken when it is entered: for play, also
\* whether the engine was playing and which track; for setVolume, its argument;
\* call, callArg and callReady are those of the last public call.
Op(op, arg) ==
  [op |-> op, arg |-> arg, ready |-> Ready,
   wasPlaying |-> IF op = "play" THEN isPlaying ELSE FALSE,
   from |-> IF op = "play" THEN currentTrackName ELSE "",
   raised |-> FALSE, steps |-> << >>, vol |-> 0,
   call |-> IF op \in PublicCalls THEN op ELSE lastOp.call,
   callArg |-> IF op \in PublicCalls THEN arg ELSE lastOp.callArg,
   callReady |-> IF op \in PublicCalls THEN Ready ELSE lastOp.callReady]

Init ==
  /\ audioCtx = "null"
  /\ masterGain = NoNode
  /\ voices = NoVoices
  /\ noiseBuffer = 0
  /\ currentSong = "null"
  /\ currentTrackName = ""
  /\ isPlaying = FALSE
  /\ currentStep = 0
  /\ nextStepTime = 0
  /\ schedulerTimer = 0
  /\ volume = DefaultVolume
  /\ muted = FALSE
  /\ now = 0
  /\ intervals = {}
  /\ timeouts = << >>
  /\ drums = << >>
  /\ orphans = {}
  /\ lastOp = [op |-> "new", arg |-> "", ready |-> FALSE, wasPlaying |-> FALSE,
               from |-> "", raised |-> FALSE, steps |-> << >>, vol |-> 0,
               call |-> "new", callArg |-> "", callReady |-> FALSE]
  /\ opCount = 0
  /\ advances = 0
  /\ created = [ctx |-> 0, gain |-> 0, buffer |-> 0, failed |-> FALSE]
  /\ sessions = 0
  /\ firstStepTime = 0
  /\ stepsScheduled = 0
  /\ lastNote = NoNote

\* ------------------------------------------------------------- init
\* init without its guard: every call initialises again.
AlreadyInitialised_Never == FALSE

\* if (this.audioCtx) return;
AlreadyInitialised == audioCtx # "null"

\* init(existingCtx?): fault names the first call that throws ("none": none does).
\* created.ctx counts the contexts the engine took, adopted or created.
init(existingCtx, fault) ==
  /\ existingCtx => fault # "ctx"
  /\ lastOp' = Op("init", "")
  /\ IF AlreadyInitialised
     THEN UNCHANGED << audioCtx, masterGain, noiseBuffer, created >>
     ELSE IF fault = "ctx"
     THEN /\ UNCHANGED << audioCtx, masterGain, noiseBuffer >>
          /\ created' = [created EXCEPT !.failed = TRUE]
     ELSE /\ audioCtx' = "ctx"
          /\ IF fault = "gain"
             THEN /\ UNCHANGED << masterGain, noiseBuffer >>
                  /\ created' = [created EXCEPT !.ctx = @ + 1, !.failed = TRUE]
             ELSE /\ masterGain' = [exists |-> TRUE,
                                    gain |-> NewParam(IF muted THEN 0 ELSE volume)]
                  /\ noiseBuffer' = IF fault = "buffer" THEN noiseBuffer
                                    ELSE created.buffer + 1
                  /\ created' = [ctx |-> created.ctx + 1,
                                 gain |-> created.gain + 1,
                                 buffer |-> created.buffer +
                                            (IF fault = "buffer" THEN 0 ELSE 1),
                                 failed |-> FALSE]
  /\ UNCHANGED << voices, currentSong, currentTrackName, isPlaying, currentStep,
                  nextStepTime, schedulerTimer, volume, muted >>
  /\ UNCHANGED << runtime, opCount, advances, sessions, firstStepTime, stepsScheduled,
                  lastNote >>

\* ------------------------------------------------------- teardown
\* Automation of the tonal voices that has not taken effect at time t.
PendingOf(vs, t) ==
  UNION {
    IF vs[c].exists
    THEN {[ch |-> c, param |-> "gain", t |-> x] : x \in PendingTimes(vs[c].gain, t)}
         \cup {[ch |-> c, param |-> "frequency", t |-> x] : x \in PendingTimes(vs[c].freq, t)}
    ELSE {} : c \in Channels }

\* destroyOscillators(): stops and disconnects the nodes and drops the references;
\* it cancels nothing, so what was scheduled on the nodes stays scheduled.
destroyOscillators == [vs |-> NoVoices, orphans |-> orphans \cup PendingOf(voices, now)]

\* stopInternal dropping the timer's handle without clearing the timer.
stopInternal_KeepTimer ==
  [isPlaying |-> FALSE, currentSong |-> "null", currentTrackName |-> "",
   currentStep |-> 0, schedulerTimer |-> 0, intervals |-> intervals,
   voices |-> destroyOscillators.vs, orphans |-> destroyOscillators.orphans]

\* stopInternal without its clearInterval block: the timer keeps running.
stopInternal_NoClear ==
  [isPlaying |-> FALSE, currentSong |-> "null", currentTrackName |-> "",
   currentStep |-> 0, schedulerTimer |-> schedulerTimer, intervals |-> intervals,
   voices |-> destroyOscillators.vs, orphans |-> destroyOscillators.orphans]

\* stopInternal(): the values it leaves in the fields it writes.
stopInternal ==
  [isPlaying |-> FALSE, currentSong |-> "null", currentTrackName |-> "",
   currentStep |-> 0, schedulerTimer |-> 0,
   intervals |-> IF schedulerTimer # 0 THEN intervals \ {schedulerTimer} ELSE intervals,
   voices |-> destroyOscillators.vs, orphans |-> destroyOscillators.orphans]

\* ------------------------------------------------ oscillator creation
\* createPulseWave(duty): two arrays of N coefficients, index 0 set to 0 and
\* the harmonics n = 1 .. N-1 computed from the duty cycle.
createPulseWave(duty) ==
  [type |-> "custom", duty |-> duty, len |-> N, zeroed |-> {0}, harmonics |-> 1 .. (N - 1)]

\* createOscillators(song): the three oscillator + gain pairs, started, gain 0.
createOscillators(song) ==
  [c \in Channels |->
     [exists |-> TRUE, started |-> TRUE,
      wave |-> IF c = "pulse1" THEN createPulseWave(song.pulse1Duty)
               ELSE IF c = "pulse2" THEN createPulseWave(song.pulse2Duty)
               ELSE [type |-> "triangle"],
      freq |-> NewParam(IF c = "tri" THEN 11000 ELSE 44000),
      gain |-> NewParam(0)]]

\* What createOscillators leaves behind when the song is not a SongData: the
\* duty cycle is undefined, the coefficients are NaN and createPeriodicWave
\* throws after the first oscillator and gain were created with their defaults.
createOscillatorsRaising(vs) ==
  [vs EXCEPT !["pulse1"] =
     [exists |-> TRUE, started |-> FALSE, wave |-> [type |-> "sine"],
      freq |-> NewParam(44000), gain |-> NewParam(GainUnit)]]

\* setInterval returns a handle no active timer has.
NewHandle(active) ==
  CHOOSE h \in 1 .. (Cardinality(active) + 1) :
    h \notin active /\ \A g \in 1 .. (h - 1) : g \in active

\* ------------------------------------------------------------- play
\* play without its guard: every call restarts the track.
AlreadyPlaying_Never(trackName) == FALSE

\* play with a guard that ignores the track name.
AlreadyPlaying_AnyTrack(trackName) == isPlaying

\* if (this.isPlaying && this.currentTrackName === trackName) return;
AlreadyPlaying(trackName) == isPlaying /\ currentTrackName = trackName

\* The fade-in of play without the cancelScheduledValues call before it.
FadeInGain_NoCancel(g) ==
  linearRampToValueAtTime(
    setValueAtTime(g, 0, now),
    IF muted THEN 0 ELSE volume, now + FadeIn)

\* The master gain after play's fade-in.
FadeInGain(g) ==
  linearRampToValueAtTime(
    setValueAtTime(cancelScheduledValues(g, now), 0, now),
    IF muted THEN 0 ELSE volume, now + FadeIn)

play(trackName) ==
  /\ opCount' = opCount + 1
  /\ LET song == Lookup(trackName)
         si == stopInternal
     IN IF ~Ready \/ song = "undefined" \/ AlreadyPlaying(trackName)
        THEN /\ lastOp' = Op("play", trackName)
             /\ UNCHANGED << engine, runtime, sessions, firstStepTime, stepsScheduled,
                             lastNote >>
        ELSE /\ currentSong' = song
             /\ currentTrackName' = trackName
             /\ currentStep' = 0
             /\ isPlaying' = TRUE
             /\ orphans' = si.orphans
             /\ lastNote' = NoNote
             /\ stepsScheduled' = 0
             /\ IF IsSongData(song)
                THEN /\ voices' = createOscillators(SONGS[song])
                     /\ masterGain' = [masterGain EXCEPT !.gain = FadeInGain(@)]
                     /\ nextStepTime' = now + FirstStepDelay
                     /\ schedulerTimer' = NewHandle(si.intervals)
                     /\ intervals' = si.intervals \cup {NewHandle(si.intervals)}
                     /\ sessions' = sessions + 1
                     /\ firstStepTime' = now + FirstStepDelay
                     /\ lastOp' = Op("play", trackName)
                ELSE /\ voices' = createOscillatorsRaising(si.voices)
                     /\ schedulerTimer' = si.schedulerTimer
                     /\ intervals' = si.intervals
                     /\ lastOp' = [Op("play", trackName) EXCEPT !.raised = TRUE]
                     /\ UNCHANGED << masterGain, nextStepTime, sessions, firstStepTime >>
             /\ UNCHANGED << audioCtx, noiseBuffer, volume, muted, now, timeouts, drums >>
  /\ UNCHANGED << advances, created >>

\* ------------------------------------------------------------- stop
\* stop without its guard.
StopApplies_Always == TRUE

\* if (!this.isPlaying) return;   negated
StopApplies == isPlaying

\* The master gain after stop's fade-out; gain.value reads the value the audio
\* thread computed last.
FadeOutGain(g) ==
  linearRampToValueAtTime(
    setValueAtTime(cancelScheduledValues(g, now), g.val, now),
    0, now + FadeOut)

stop ==
  /\ opCount' = opCount + 1
  /\ lastOp' = Op("stop", "")
  /\ IF StopApplies
     THEN /\ masterGain' = IF Ready THEN [masterGain EXCEPT !.gain = FadeOutGain(@)]
                           ELSE masterGain
          /\ timeouts' = Append(timeouts, now + StopDelay)
     ELSE UNCHANGED << masterGain, timeouts >>
  /\ UNCHANGED << audioCtx, voices, noiseBuffer, currentSong, currentTrackName, isPlaying,
                  currentStep, nextStepTime, schedulerTimer, volume, muted >>
  /\ UNCHANGED << now, intervals, drums, orphans >>
  /\ UNCHANGED << advances, created, sessions, firstStepTime, stepsScheduled, lastNote >>

\* The fields stopInternal writes take its values; the rest is left alone.
ApplyStopInternal ==
  /\ \E si \in {stopInternal} :
       /\ isPlaying' = si.isPlaying
       /\ currentSong' = si.currentSong
       /\ currentTrackName' = si.currentTrackName
       /\ currentStep' = si.currentStep
       /\ schedulerTimer' = si.schedulerTimer
       /\ intervals' = si.intervals
       /\ voices' = si.voices
       /\ orphans' = si.orphans
  /\ UNCHANGED << audioCtx, masterGain, noiseBuffer, nextStepTime, volume, muted >>
  /\ UNCHANGED << now, drums >>
  /\ UNCHANGED << advances, created, sessions, firstStepTime, stepsScheduled, lastNote >>

stopImmediate ==
  /\ opCount' = opCount + 1
  /\ lastOp' = Op("stopImmediate", "")
  /\ ApplyStopInternal
  /\ UNCHANGED timeouts

\* The callback of stop's setTimeout(() => this.stopInternal(), 350).
stopTimeout ==
  /\ timeouts # << >>
  /\ Head(timeouts) <= now
  /\ timeouts' = Tail(timeouts)
  /\ lastOp' = Op("stopTimeout", "")
  /\ ApplyStopInternal
  /\ UNCHANGED opCount

\* ------------------------------------------------- volume and mute
\* setVolume storing its argument as it is.
Clamp_Identity(vol) == vol

\* Math.max(0, Math.min(1, vol))
Clamp(vol) == IF vol < 0 THEN 0 ELSE IF vol > GainUnit THEN GainUnit ELSE vol

\* The gain applied without regard to the muted flag.
ApplyGain_IgnoreMute(g, m, v) == setValueAtTime(cancelScheduledValues(g, now), v, now)

\* cancelScheduledValues(now); setValueAtTime(muted ? 0 : volume, now)
ApplyGain(g, m, v) == setValueAtTime(cancelScheduledValues(g, now), IF m THEN 0 ELSE v, now)

setVolume(vol) ==
  /\ opCount' = opCount + 1
  /\ lastOp' = [Op("setVolume", "") EXCEPT !.vol = vol]
  /\ volume' = Clamp(vol)
  /\ masterGain' = IF Ready THEN [masterGain EXCEPT !.gain = ApplyGain(@, muted, Clamp(vol))]
                   ELSE masterGain
  /\ UNCHANGED << audioCtx, voices, noiseBuffer, currentSong, currentTrackName, isPlaying,
                  currentStep, nextStepTime, schedulerTimer, muted >>
  /\ UNCHANGED << runtime, advances, created, sessions, firstStepTime, stepsScheduled,
                  lastNote >>

toggleMute ==
  /\ opCount' = opCount + 1
  /\ lastOp' = Op("toggleMute", "")
  /\ muted' = ~muted
  /\ masterGain' = IF Ready THEN [masterGain EXCEPT !.gain = ApplyGain(@, ~muted, volume)]
                   ELSE masterGain
  /\ UNCHANGED << audioCtx, voices, noiseBuffer, currentSong, currentTrackName, isPlaying,
                  currentStep, nextStepTime, schedulerTimer, volume >>
  /\ UNCHANGED << runtime, advances, created, sessions, firstStepTime, stepsScheduled,
                  lastNote >>

\* ------------------------------------------------------- scheduler
\* 60 / tempo / 2 seconds, in ticks (exact for every tempo of the table).
SecondsPerStep(song) == (60 * Ms(1000)) \div (song.tempo * 2)

\* a[idx] of a JavaScript array: undefined past the end.  undefined is neither
\* > 0 nor === 0 nor <= 0 and matches no case of a switch.
UndefinedValue == S - 1
At(a, idx) == IF idx + 1 \in DOMAIN a THEN a[idx + 1] ELSE UndefinedValue

\* scheduleTonalNote taking every value that is not a frequency for a rest.
scheduleTonalNote_SustainAsRest(voice, noteValue, channelVol, time) ==
  IF noteValue > 0
  THEN [voice EXCEPT
          !.gain = linearRampToValueAtTime(
                     setValueAtTime(cancelScheduledValues(@, time), 0, time),
                     channelVol, time + Attack),
          !.freq = setValueAtTime(cancelScheduledValues(@, time), noteValue, time)]
  ELSE [voice EXCEPT
          !.gain = setValueAtTime(cancelScheduledValues(@, time), 0, time + Release)]

\* scheduleTonalNote with a release ten times as long.
scheduleTonalNote_LateRelease(voice, noteValue, channelVol, time) ==
  IF noteValue > 0
  THEN [voice EXCEPT
          !.gain = linearRampToValueAtTime(
                     setValueAtTime(cancelScheduledValues(@, time), 0, time),
                     channelVol, time + Attack),
          !.freq = setValueAtTime(cancelScheduledValues(@, time), noteValue, time)]
  ELSE IF noteValue = 0
  THEN [voice EXCEPT
          !.gain = setValueAtTime(cancelScheduledValues(@, time), 0, time + 10 * Release)]
  ELSE voice

\* scheduleTonalNote running the attack again on a sustain step.
scheduleTonalNote_Retrigger(voice, noteValue, channelVol, time) ==
  IF noteValue > 0
  THEN [voice EXCEPT
          !.gain = linearRampToValueAtTime(
                     setValueAtTime(cancelScheduledValues(@, time), 0, time),
                     channelVol, time + Attack),
          !.freq = setValueAtTime(cancelScheduledValues(@, time), noteValue, time)]
  ELSE IF noteValue = 0
  THEN [voice EXCEPT
          !.gain = setValueAtTime(cancelScheduledValues(@, time), 0, time + Release)]
  ELSE [voice EXCEPT
          !.gain = linearRampToValueAtTime(
                     setValueAtTime(cancelScheduledValues(@, time), 0, time),
                     channelVol, time + Attack)]

\* scheduleTonalNote(osc, gain, noteValue, channelVol, time) on one voice.
scheduleTonalNote(voice, noteValue, channelVol, time) ==
  IF noteValue > 0
  THEN [voice EXCEPT
          !.gain = linearRampToValueAtTime(
                     setValueAtTime(cancelScheduledValues(@, time), 0, time),
                     channelVol, time + Attack),
          !.freq = setValueAtTime(cancelScheduledValues(@, time), noteValue, time)]
  ELSE IF noteValue = 0
  THEN [voice EXCEPT
          !.gain = setValueAtTime(cancelScheduledValues(@, time), 0, time + Release)]
  ELSE voice

\* The hit kinds with the filters of the two hats exchanged.
DrumKinds_SwappedHats ==
  [k \in {K, SN, HH, OH} |->
     IF k = K THEN [filter |-> "lowpass", frequency |-> 180, q |-> 10, peak |-> 25, decay |-> 150]
     ELSE IF k = SN THEN [filter |-> "bandpass", frequency |-> 1200, q |-> 8, peak |-> 18, decay |-> 100]
     ELSE IF k = HH THEN [filter |-> "highpass", frequency |-> 6000, q |-> 10, peak |-> 9, decay |-> 40]
     ELSE [filter |-> "highpass", frequency |-> 8000, q |-> 10, peak |-> 10, decay |-> 180]]

\* The percussive voice scheduleNoise builds for a hit kind (peak in tenths of
\* the channel volume, decay in ms); no voice for any other value.
DrumKinds ==
  [k \in {K, SN, HH, OH} |->
     IF k = K THEN [filter |-> "lowpass", frequency |-> 180, q |-> 10, peak |-> 25, decay |-> 150]
     ELSE IF k = SN THEN [filter |-> "bandpass", frequency |-> 1200, q |-> 8, peak |-> 18, decay |-> 100]
     ELSE IF k = HH THEN [filter |-> "highpass", frequency |-> 8000, q |-> 10, peak |-> 9, decay |-> 40]
     ELSE [filter |-> "highpass", frequency |-> 6000, q |-> 10, peak |-> 10, decay |-> 180]]

\* scheduleNoise cutting off the percussive voices that are still sounding when
\* it starts a new one.
scheduleNoise_Choke(ds, drumType, channelVol, time) ==
  IF audioCtx = "null" \/ noiseBuffer = 0 \/ ~masterGain.exists
     \/ (drumType # UndefinedValue /\ drumType <= 0)
  THEN ds
  ELSE IF drumType \in DOMAIN DrumKinds
  THEN << [type |-> drumType, buffer |-> noiseBuffer,
           filter |-> DrumKinds[drumType].filter,
           frequency |-> DrumKinds[drumType].frequency,
           q |-> DrumKinds[drumType].q,
           peak |-> (channelVol * DrumKinds[drumType].peak) \div 10,
           decayEnd |-> time + Ms(DrumKinds[drumType].decay),
           start |-> time, stop |-> time + DrumStop] >>
  ELSE ds

\* scheduleNoise(drumType, channelVol, time): the percussive voices after the call.
\* (The random start offset into the noise buffer is not part of the record.)
scheduleNoise(ds, drumType, channelVol, time) ==
  IF audioCtx = "null" \/ noiseBuffer = 0 \/ ~masterGain.exists
     \/ (drumType # UndefinedValue /\ drumType <= 0)
  THEN ds
  ELSE IF drumType \in DOMAIN DrumKinds
  THEN Append(ds,
         [type |-> drumType, buffer |-> noiseBuffer,
          filter |-> DrumKinds[drumType].filter,
          frequency |-> DrumKinds[drumType].frequency,
          q |-> DrumKinds[drumType].q,
          peak |-> (channelVol * DrumKinds[drumType].peak) \div 10,
          decayEnd |-> time + Ms(DrumKinds[drumType].decay),
          start |-> time, stop |-> time + DrumStop])
  ELSE ds

\* The last non-sustain step of a channel, and the kind of the one before it
\* (history).
NoteSeen(ln, noteValue, time) ==
  IF noteValue > 0 THEN [kind |-> "note", t |-> time, after |-> ln.kind]
  ELSE IF noteValue = 0 THEN [kind |-> "rest", t |-> time, after |-> ln.kind]
  ELSE ln

\* scheduleStep taking a sustain marker on the first step of the loop for a rest.
scheduleStep_ResetAtLoopStart(st, song, step, time) ==
  LET idx == step % Len(song.pulse1)
      vol == [pulse1 |-> song.pulse1Vol, pulse2 |-> song.pulse2Vol, tri |-> song.triVol]
      raw == [pulse1 |-> At(song.pulse1, idx), pulse2 |-> At(song.pulse2, idx),
              tri |-> At(song.triangle, idx)]
      val == [c \in Channels |-> IF idx = 0 /\ raw[c] = S THEN R ELSE raw[c]]
  IN [st EXCEPT
        !.voices = [c \in Channels |->
                      IF st.voices[c].exists
                      THEN scheduleTonalNote(st.voices[c], val[c], vol[c], time)
                      ELSE st.voices[c]],
        !.drums = scheduleNoise(st.drums, At(song.noise, idx), song.noiseVol, time),
        !.lastNote = [c \in Channels |->
                        IF st.voices[c].exists THEN NoteSeen(st.lastNote[c], val[c], time)
                        ELSE st.lastNote[c]],
        !.steps = Append(st.steps, [step |-> step, time |-> time])]

\* scheduleStep(step, time), on the part of the state the scheduler loop works on.
scheduleStep(st, song, step, time) ==
  LET idx == step % Len(song.pulse1)
      vol == [pulse1 |-> song.pulse1Vol, pulse2 |-> song.pulse2Vol, tri |-> song.triVol]
      val == [pulse1 |-> At(song.pulse1, idx), pulse2 |-> At(song.pulse2, idx),
              tri |-> At(song.triangle, idx)]
  IN [st EXCEPT
        !.voices = [c \in Channels |->
                      IF st.voices[c].exists
                      THEN scheduleTonalNote(st.voices[c], val[c], vol[c], time)
                      ELSE st.voices[c]],
        !.drums = scheduleNoise(st.drums, At(song.noise, idx), song.noiseVol, time),
        !.lastNote = [c \in Channels |->
                        IF st.voices[c].exists THEN NoteSeen(st.lastNote[c], val[c], time)
                        ELSE st.lastNote[c]],
        !.steps = Append(st.steps, [step |-> step, time |-> time])]

\* advanceStep taking the next step's time from the clock read now.
advanceStep_FromClock(st, song) ==
  [st EXCEPT
     !.nextStepTime = now + LOOKAHEAD + SecondsPerStep(song),
     !.currentStep = IF @ + 1 >= Len(song.pulse1) THEN 0 ELSE @ + 1]

\* advanceStep wrapping one step late: the index reaches the loop length.
advanceStep_WrapLate(st, song) ==
  [st EXCEPT
     !.nextStepTime = @ + SecondsPerStep(song),
     !.currentStep = IF @ + 1 > Len(song.pulse1) THEN 0 ELSE @ + 1]

\* advanceStep going back to the middle of the sequence when its end is reached.
advanceStep_WrapToMiddle(st, song) ==
  [st EXCEPT
     !.nextStepTime = @ + SecondsPerStep(song),
     !.currentStep = IF @ + 1 >= Len(song.pulse1) THEN Len(song.pulse1) \div 2 ELSE @ + 1]

\* advanceStep()
advanceStep(st, song) ==
  [st EXCEPT
     !.nextStepTime = @ + SecondsPerStep(song),
     !.currentStep = IF @ + 1 >= Len(song.pulse1) THEN 0 ELSE @ + 1]

\* The loop of schedule() as an if: one step a tick.
scheduleLoop_OneStep(st, song, horizon) ==
  IF st.nextStepTime < horizon
  THEN advanceStep(scheduleStep(st, song, st.currentStep, st.nextStepTime), song)
  ELSE st

\* while (this.nextStepTime < currentTime + this.LOOKAHEAD) { scheduleStep; advanceStep }
\* (s is the state at the head of an iteration, evaluated once).
RECURSIVE scheduleLoop(_, _, _)
scheduleLoop(st, song, horizon) ==
  CHOOSE after \in
    { IF s.nextStepTime < horizon
      THEN scheduleLoop(
             advanceStep(scheduleStep(s, song, s.currentStep, s.nextStepTime), song),
             song, horizon)
      ELSE s : s \in {st} } : TRUE

\* schedule(), called by the interval timer h.
schedule(h) ==
  /\ h \in intervals
  /\ IF ~isPlaying \/ audioCtx = "null" \/ currentSong = "null"
     THEN /\ lastOp' = Op("schedule", "")
          /\ UNCHANGED << currentStep, nextStepTime, voices, drums, lastNote, stepsScheduled >>
     ELSE IF ~IsSongData(currentSong)
     THEN /\ lastOp' = [Op("schedule", "") EXCEPT !.raised = TRUE]
          /\ UNCHANGED << currentStep, nextStepTime, voices, drums, lastNote, stepsScheduled >>
     ELSE \E st \in {scheduleLoop(
                      [currentStep |-> currentStep, nextStepTime |-> nextStepTime,
                       voices |-> voices, drums |-> drums, lastNote |-> lastNote,
                       steps |-> << >>],
                      SONGS[currentSong], now + LOOKAHEAD)} :
             /\ currentStep' = st.currentStep
             /\ nextStepTime' = st.nextStepTime
             /\ voices' = st.voices
             /\ drums' = st.drums
             /\ lastNote' = st.lastNote
             /\ stepsScheduled' = stepsScheduled + Len(st.steps)
             /\ lastOp' = [Op("schedule", "") EXCEPT !.steps = st.steps]
  /\ UNCHANGED << audioCtx, masterGain, noiseBuffer, currentSong, currentTrackName,
                  isPlaying, schedulerTimer, volume, muted >>
  /\ UNCHANGED << now, intervals, timeouts, orphans >>
  /\ UNCHANGED << opCount, advances, created, sessions, firstStepTime >>

\* --------------------------------------------------------------- clock
\* The audio clock (and with it the timers' clock) advances by d: the audio
\* thread applies the automation that has come due, percussive voices past
\* their stop time are gone, and what was pending on disposed voices has passed.
Elapse(d) ==
  /\ advances' = advances + 1
  /\ now' = now + d
  /\ masterGain' = IF masterGain.exists
                   THEN [masterGain EXCEPT !.gain = Settle(@, now + d)]
                   ELSE masterGain
  /\ voices' = [c \in Channels |->
                  IF voices[c].exists
                  THEN [voices[c] EXCEPT !.gain = Settle(@, now + d),
                                         !.freq = Settle(@, now + d)]
                  ELSE voices[c]]
  /\ drums' = SelectSeq(drums, LAMBDA v : v.stop > now + d)
  /\ orphans' = {o \in orphans : o.t > now + d}
  /\ UNCHANGED << audioCtx, noiseBuffer, currentSong, currentTrackName, isPlaying,
                  currentStep, nextStepTime, schedulerTimer, volume, muted >>
  /\ UNCHANGED << intervals, timeouts >>
  /\ UNCHANGED << lastOp, opCount, created, sessions, firstStepTime, stepsScheduled,
                  lastNote >>

\* ------------------------------------------------------- specification
\* Track names the callers pass, and one that names no track.
TrackNames == {"game", "menu", "nosuch"}
VolumeInputs == {0 - (GainUnit \div 2), GainUnit \div 4, 2 * GainUnit}
\* How init may end; a context is passed in (existingCtx) in one of the cases.
InitFaults == {"none", "ctx", "gain", "buffer"}

\* The delays between two handler runs: a few scheduler intervals (less than
\* the lookahead), and the delay of stop's teardown.
ClockSteps == {ShortDelayIntervals * SCHEDULE_INTERVAL, StopDelay}

Advance(d) == advances < MaxAdvances /\ Elapse(d)

\* A caller makes at most MaxOps calls after init.
MayCall == opCount < MaxOps

\* The public calls, with track names drawn from names.
Calls(names) ==
  \/ \E fault \in InitFaults : init(fault = "gain", fault)
  \/ MayCall /\ \E trackName \in names : play(trackName)
  \/ MayCall /\ stop
  \/ MayCall /\ stopImmediate
  \/ MayCall /\ \E vol \in VolumeInputs : setVolume(vol)
  \/ MayCall /\ toggleMute

\* The callbacks of the runtime's timers.
Timers ==
  \/ \E h \in intervals : schedule(h)
  \/ stopTimeout

Next ==
  \/ Calls(TrackNames)
  \/ Timers
  \/ \E d \in ClockSteps : Advance(d)

Spec == Init /\ [][Next]_vars

\* The same engine when a caller also passes a name that is no track of the
\* table but a member every object inherits.
NextAnyName ==
  \/ Calls(TrackNames \cup {"constructor"})
  \/ Timers
  \/ \E d \in ClockSteps : Advance(d)

SpecAnyName == Init /\ [][NextAnyName]_vars

\* Longer runs of the scheduler: sessions of the two tracks, started, switched
\* and stopped, with ticks that come in time and ticks that come after a long
\* pause of the control thread.
PauseSteps == {ShortDelayIntervals * SCHEDULE_INTERVAL, Ms(LongPauseMs)}

Pause(d) == advances < MaxPauses /\ Elapse(d)

NextScheduler ==
  \/ \E fault \in {"none", "buffer"} : init(FALSE, fault)
  \/ MayCall /\ \E trackName \in {"game", "menu"} : play(trackName)
  \/ MayCall /\ stop
  \/ MayCall /\ stopImmediate
  \/ Timers
  \/ \E d \in PauseSteps : Pause(d)

SpecScheduler == Init /\ [][NextScheduler]_vars

\* Calls made while a fade of the master gain is under way: a caller that
\* plays, stops, sets the volume and mutes in any order, with waits that add up
\* to the delay of stop's teardown.
FadeSteps == {ShortDelayIntervals * SCHEDULE_INTERVAL,
              StopDelay - ShortDelayIntervals * SCHEDULE_INTERVAL}

Wait(d) == advances < MaxWaits /\ Elapse(d)

MayCallFade == opCount < MaxFadeOps

NextFade ==
  \/ init(FALSE, "none")
  \/ MayCallFade /\ \E trackName \in {"game", "menu"} : play(trackName)
  \/ MayCallFade /\ stop
  \/ MayCallFade /\ \E vol \in VolumeInputs : setVolume(vol)
  \/ MayCallFade /\ toggleMute
  \/ Timers
  \/ \E d \in FadeSteps : Wait(d)

SpecFade == Init /\ [][NextFade]_vars

\* The scheduler when no tick is late: the first tick of a session runs less
\* than LOOKAHEAD after play, every later tick less than LOOKAHEAD after the
\* tick before it.  The clock may advance by d when the tick due now has run
\* (the next step lies beyond the lookahead) and the tick after the wait still
\* comes in time.
TimelySteps ==
  {d \in {SCHEDULE_INTERVAL, ShortDelayIntervals * SCHEDULE_INTERVAL} : d < LOOKAHEAD}

InTime(d) ==
  IF intervals = {} THEN TRUE
  ELSE IF stepsScheduled = 0
  THEN (now + d) - (firstStepTime - FirstStepDelay) < LOOKAHEAD
  ELSE nextStepTime >= now + LOOKAHEAD

TimelyWait(d) == advances < MaxTimelyWaits /\ InTime(d) /\ Elapse(d)

NextTimely ==
  \/ init(FALSE, "none")
  \/ MayCall /\ \E trackName \in {"game", "menu"} : play(trackName)
  \/ MayCall /\ stop
  \/ Timers
  \/ \E d \in TimelySteps : TimelyWait(d)

SpecTimely == Init /\ [][NextTimely]_vars

\* ---------------------------------------------------- a track of 8 steps
\* The engine built with a table that holds one more track: tempo 150, a loop
\* of 8 steps, pulse1 = [440, 0, -1, 440, 0, 0, 0, 0]; pulse2 ends the loop on
\* sustain steps that follow a note, the triangle begins it on sustain steps,
\* and the noise channel has every hit kind and a silent step.
ExampleSong ==
  [ tempo |-> 150, pulse1Duty |-> 250, pulse2Duty |-> 125,
    pulse1Vol |-> 1200, pulse2Vol |-> 800, triVol |-> 1500, noiseVol |-> 1000,
    pulse1 |-> << 44000, R, S, 44000, R, R, R, R >>,
    pulse2 |-> << _E4, S, S, R, _A4, S, S, S >>,
    triangle |-> << S, S, R, S, _A2, S, S, S >>,
    noise |-> << K, HH, SN, R, K, OH, SN, HH >> ]

\* play('example') with that table.
playExample ==
  /\ opCount' = opCount + 1
  /\ lastOp' = Op("play", "example")
  /\ IF ~Ready \/ AlreadyPlaying("example")
     THEN UNCHANGED << engine, runtime, sessions, firstStepTime, stepsScheduled, lastNote >>
     ELSE \E si \in {stopInternal} :
            /\ currentSong' = "example"
            /\ currentTrackName' = "example"
            /\ currentStep' = 0
            /\ isPlaying' = TRUE
            /\ orphans' = si.orphans
            /\ lastNote' = NoNote
            /\ stepsScheduled' = 0
            /\ voices' = createOscillators(ExampleSong)
            /\ masterGain' = [masterGain EXCEPT !.gain = FadeInGain(@)]
            /\ nextStepTime' = now + FirstStepDelay
            /\ schedulerTimer' = NewHandle(si.intervals)
            /\ intervals' = si.intervals \cup {NewHandle(si.intervals)}
            /\ sessions' = sessions + 1
            /\ firstStepTime' = now + FirstStepDelay
            /\ UNCHANGED << audioCtx, noiseBuffer, volume, muted, now, timeouts, drums >>
  /\ UNCHANGED << advances, created >>

\* schedule() while that track is the current song.
scheduleExample(h) ==
  /\ h \in intervals
  /\ IF ~isPlaying \/ audioCtx = "null" \/ currentSong # "example"
     THEN /\ lastOp' = Op("schedule", "")
          /\ UNCHANGED << currentStep, nextStepTime, voices, drums, lastNote, stepsScheduled >>
     ELSE \E st \in {scheduleLoop(
                      [currentStep |-> currentStep, nextStepTime |-> nextStepTime,
                       voices |-> voices, drums |-> drums, lastNote |-> lastNote,
                       steps |-> << >>],
                      ExampleSong, now + LOOKAHEAD)} :
             /\ currentStep' = st.currentStep
             /\ nextStepTime' = st.nextStepTime
             /\ voices' = st.voices
             /\ drums' = st.drums
             /\ lastNote' = st.lastNote
             /\ stepsScheduled' = stepsScheduled + Len(st.steps)
             /\ lastOp' = [Op("schedule", "") EXCEPT !.steps = st.steps]
  /\ UNCHANGED << audioCtx, masterGain, noiseBuffer, currentSong, currentTrackName,
                  isPlaying, schedulerTimer, volume, muted >>
  /\ UNCHANGED << now, intervals, timeouts, orphans >>
  /\ UNCHANGED << opCount, advances, created, sessions, firstStepTime >>

NextExample ==
  \/ \E fault \in {"none", "buffer"} : init(FALSE, fault)
  \/ MayCall /\ playExample
  \/ MayCall /\ stopImmediate
  \/ \E h \in intervals : scheduleExample(h)
  \/ \E d \in PauseSteps : Pause(d)

SpecExample == Init /\ [][NextExample]_vars

\* ------------------------------------------------ a session that goes on
\* The 8-step track playing without end.  The engine uses differences of clock
\* readings only, and the step index, never the number of steps scheduled: the
\* clock is read from the start of the current pass of the loop.  When a whole
\* pass has been scheduled and its time has gone by, every time in the state is
\* taken LoopDuration earlier and the count of scheduled steps one loop lower.
LoopDuration == Len(ExampleSong.pulse1) * SecondsPerStep(ExampleSong)

ShiftParam(p, by) == [p EXCEPT !.evs = [i \in DOMAIN @ |-> [@[i] EXCEPT !.t = @ - by]]]

\* The clock steps of this session: ticks are late by MaxLagMs at most.
LoopSteps == {ShortDelayIntervals * SCHEDULE_INTERVAL, StopDelay}
LagAllows(d) == (now + d) + LOOKAHEAD - nextStepTime <= Ms(MaxLagMs)

\* The audio clock advances by d while the session plays.
LoopElapse(d) ==
  /\ isPlaying /\ currentSong = "example"
  /\ LagAllows(d)
  /\ \E by \in {IF (now + d) >= firstStepTime + LoopDuration
                   /\ stepsScheduled >= Len(ExampleSong.pulse1)
                THEN LoopDuration ELSE 0} :
       /\ now' = (now + d) - by
       /\ nextStepTime' = nextStepTime - by
       /\ stepsScheduled' = stepsScheduled - (IF by > 0 THEN Len(ExampleSong.pulse1) ELSE 0)
       /\ masterGain' = [masterGain EXCEPT !.gain = ShiftParam(Settle(@, now + d), by)]
       /\ voices' = [c \in Channels |->
                       IF voices[c].exists
                       THEN [voices[c] EXCEPT !.gain = ShiftParam(Settle(@, now + d), by),
                                              !.freq = ShiftParam(Settle(@, now + d), by)]
                       ELSE voices[c]]
       /\ drums' = [i \in DOMAIN SelectSeq(drums, LAMBDA v : v.stop > now + d) |->
                      [SelectSeq(drums, LAMBDA v : v.stop > now + d)[i] EXCEPT
                         !.start = @ - by, !.stop = @ - by, !.decayEnd = @ - by]]
       /\ orphans' = {[o EXCEPT !.t = @ - by] : o \in {x \in orphans : x.t > now + d}}
       /\ lastNote' = [c \in Channels |->
                         IF lastNote[c].kind = "none" THEN lastNote[c]
                         ELSE [lastNote[c] EXCEPT !.t = @ - by]]
       /\ lastOp' = [lastOp EXCEPT
                       !.steps = [i \in DOMAIN @ |-> [@[i] EXCEPT !.time = @ - by]]]
  /\ UNCHANGED << audioCtx, noiseBuffer, currentSong, currentTrackName, isPlaying,
                  currentStep, schedulerTimer, volume, muted >>
  /\ UNCHANGED << intervals, timeouts >>
  /\ UNCHANGED << opCount, advances, created, sessions, firstStepTime >>

NextLoop ==
  \/ init(FALSE, "none")
  \/ MayCall /\ playExample
  \/ \E h \in intervals : scheduleExample(h)
  \/ \E d \in LoopSteps : LoopElapse(d)

\* setInterval keeps calling schedule() and the audio clock keeps running.
SpecLoop ==
  /\ Init /\ [][NextLoop]_vars
  /\ WF_vars(\E h \in intervals : scheduleExample(h))
  /\ WF_vars(\E d \in LoopSteps : LoopElapse(d))

\* =================================================================
\* Properties
\* =================================================================
\* A step made by a public call other than init.
CallStep == opCount' = opCount + 1
\* A step made by init, and one made by the scheduler's tick.
InitStep == lastOp'.op = "init" /\ advances' = advances
TickStep == lastOp'.op = "schedule" /\ advances' = advances

\* C1: on an initialised engine that is playing track X, play(X) starts no new
\* session: the tonal voices, the scheduler timer, the step index, the next-step
\* time and the master-gain automation are unchanged, and the number of session
\* starts does not grow.
C1_PlaySameTrackIsNoOp ==
  [][ (CallStep /\ lastOp'.op = "play" /\ Ready /\ isPlaying
         /\ lastOp'.arg \in DOMAIN SONGS /\ currentTrackName = lastOp'.arg)
      => UNCHANGED << voices, schedulerTimer, intervals, currentStep, nextStepTime,
                      masterGain, sessions >> ]_vars

C1_Witness ==
  /\ lastOp.op = "play" /\ lastOp.ready /\ lastOp.wasPlaying
  /\ lastOp.arg \in DOMAIN SONGS /\ lastOp.from = lastOp.arg
  /\ opCount = 2 /\ sessions = 1 /\ isPlaying /\ stepsScheduled > 0

\* C2: after play(B) on an initialised engine that was playing another defined
\* track A, getCurrentTrack() is B and isCurrentlyPlaying() is true.
C2_SwitchReportsNewTrack ==
  (lastOp.op = "play" /\ lastOp.ready /\ lastOp.arg \in DOMAIN SONGS
     /\ lastOp.wasPlaying /\ lastOp.from \in DOMAIN SONGS /\ lastOp.from # lastOp.arg)
  => (currentTrackName = lastOp.arg /\ isPlaying)

C2_Witness ==
  /\ lastOp.op = "play" /\ lastOp.ready /\ lastOp.wasPlaying
  /\ lastOp.from = "game" /\ lastOp.arg = "menu"
  /\ currentTrackName = "menu" /\ isPlaying

\* C3: when a session is torn down, the automation already scheduled on its
\* tonal voices is cancelled before the voices are disposed: no automation of
\* disposed voices is still pending.
C3_TeardownCancelsAutomation == orphans = {}

\* C4: play(name) with a name that is no track of the table changes nothing:
\* playing flag, current track and song, step index, next-step time, scheduler
\* timer, tonal voices and master-gain automation are as before the call.
C4_UnknownTrackChangesNothing ==
  [][ (CallStep /\ lastOp'.op = "play" /\ lastOp'.arg \notin DOMAIN SONGS)
      => (/\ ~lastOp'.raised
          /\ UNCHANGED << isPlaying, currentTrackName, currentSong, currentStep,
                          nextStepTime, schedulerTimer, intervals, voices,
                          masterGain >>) ]_vars

\* The last init left the engine without a context or without a master gain.
Inert == created.failed

\* C5 as stated: after a failed initialisation every public call returns without
\* raising and leaves the whole engine state unchanged.
C5_InertCallsChangeNothing ==
  [][ (CallStep /\ Inert) => (~lastOp'.raised /\ UNCHANGED << engine, runtime >>) ]_vars

\* C5 as amended: after a failed initialisation every public call returns without
\* raising; play, stop and stopImmediate change nothing, setVolume changes only
\* the stored volume and toggleMute only the muted flag; the engine is not
\* playing, has no voices and no timer, and stays so.
C5_InertCallsTouchOnlySettings ==
  [][ /\ Inert => (/\ ~Ready /\ ~isPlaying /\ voices = NoVoices
                   /\ schedulerTimer = 0 /\ intervals = {} /\ timeouts = << >>)
      /\ (CallStep /\ Inert)
         => (/\ ~lastOp'.raised
             /\ UNCHANGED << audioCtx, masterGain, voices, noiseBuffer, currentSong,
                             currentTrackName, isPlaying, currentStep, nextStepTime,
                             schedulerTimer, runtime >>
             /\ lastOp'.op # "setVolume" => UNCHANGED volume
             /\ lastOp'.op # "toggleMute" => UNCHANGED muted) ]_vars

C5_Witness ==
  /\ Inert /\ audioCtx # "null" /\ opCount = 2
  /\ lastOp.op = "play" /\ lastOp.arg = "game" /\ muted /\ ~isPlaying

\* C6: init on an engine that has a context changes nothing, so the context, the
\* master gain and the noise buffer are each created at most once; no other
\* handler (play, a scheduler tick with its drum hits, ...) creates or replaces
\* any of them.
C6_InitIsIdempotent ==
  [][ /\ (InitStep /\ audioCtx # "null") => UNCHANGED << engine, runtime, created >>
      /\ ~InitStep => (/\ UNCHANGED << audioCtx, noiseBuffer, created >>
                       /\ masterGain'.exists = masterGain.exists)
      /\ created'.ctx <= 1 /\ created'.gain <= 1 /\ created'.buffer <= 1
      /\ (Ready' /\ noiseBuffer' # 0)
         => (created'.ctx = 1 /\ created'.gain = 1 /\ created'.buffer = 1) ]_vars

C6_Witness ==
  /\ lastOp.op = "init" /\ lastOp.ready /\ isPlaying /\ Len(drums) > 0
  /\ created.ctx = 1 /\ created.gain = 1 /\ created.buffer = 1 /\ noiseBuffer = 1

\* C7: in every track of the table the four step sequences have the same
\* length, and every step index the scheduler uses lies within all four
\* channels of the song being played.
C7_ChannelsSameLength ==
  /\ \A t \in DOMAIN SONGS :
       /\ Len(SONGS[t].pulse2) = Len(SONGS[t].pulse1)
       /\ Len(SONGS[t].triangle) = Len(SONGS[t].pulse1)
       /\ Len(SONGS[t].noise) = Len(SONGS[t].pulse1)
  /\ (lastOp.op = "schedule" /\ IsSongData(currentSong))
     => \A i \in DOMAIN lastOp.steps :
          /\ lastOp.steps[i].step + 1 \in DOMAIN SONGS[currentSong].pulse1
          /\ lastOp.steps[i].step + 1 \in DOMAIN SONGS[currentSong].pulse2
          /\ lastOp.steps[i].step + 1 \in DOMAIN SONGS[currentSong].triangle
          /\ lastOp.steps[i].step + 1 \in DOMAIN SONGS[currentSong].noise

C7_Witness ==
  /\ lastOp.op = "schedule" /\ currentSong = "game" /\ isPlaying
  /\ \E i \in DOMAIN lastOp.steps : lastOp.steps[i].step = 15

\* C8: within a session the k-th step scheduled (k = 0, 1, ...) gets the
\* timestamp of the first step plus k step durations, whenever the ticks run;
\* the next-step time is the first timestamp plus the steps scheduled so far.
C8_NoDrift ==
  (isPlaying /\ IsSongData(currentSong))
  => /\ nextStepTime = firstStepTime + stepsScheduled * SecondsPerStep(SONGS[currentSong])
     /\ lastOp.op = "schedule"
        => \A i \in DOMAIN lastOp.steps :
             lastOp.steps[i].time =
               firstStepTime + (stepsScheduled - Len(lastOp.steps) + i - 1)
                               * SecondsPerStep(SONGS[currentSong])

C8_Witness ==
  /\ lastOp.op = "schedule" /\ currentSong = "menu" /\ isPlaying
  /\ Len(lastOp.steps) >= 3 /\ stepsScheduled > Len(lastOp.steps)

\* The notes and the volume of a tonal channel of a song.
ChannelNotes(song, c) ==
  IF c = "pulse1" THEN song.pulse1 ELSE IF c = "pulse2" THEN song.pulse2 ELSE song.triangle
ChannelVol(song, c) ==
  IF c = "pulse1" THEN song.pulse1Vol ELSE IF c = "pulse2" THEN song.pulse2Vol ELSE song.triVol

\* The voice after the steps from the i-th on, the sustain steps left out.
RECURSIVE WithoutSustain(_, _, _, _, _)
WithoutSustain(voice, notes, channelVol, steps, i) ==
  IF i > Len(steps) THEN voice
  ELSE WithoutSustain(
         IF At(notes, steps[i].step) = S THEN voice
         ELSE scheduleTonalNote(voice, At(notes, steps[i].step), channelVol, steps[i].time),
         notes, channelVol, steps, i + 1)

\* C9: a sustain step enqueues nothing on its channel and cancels nothing: a
\* tick leaves every tonal voice as the non-sustain steps it scheduled leave it
\* (unchanged, when all its steps are sustain steps on that channel).
C9_SustainSchedulesNothing ==
  [][ (TickStep /\ lastOp'.steps # << >> /\ IsSongData(currentSong))
      => \A c \in Channels :
           voices[c].exists
           => voices'[c] = WithoutSustain(voices[c], ChannelNotes(SONGS[currentSong], c),
                                          ChannelVol(SONGS[currentSong], c),
                                          lastOp'.steps, 1) ]_vars

C9_Witness ==
  /\ lastOp.op = "schedule" /\ Len(lastOp.steps) = 1 /\ IsSongData(currentSong)
  /\ voices["pulse1"].exists
  /\ At(SONGS[currentSong].pulse1, lastOp.steps[1].step) = S
  /\ lastNote["pulse1"].kind = "note"
  /\ ValueAt(voices["pulse1"].gain, now) > 0

\* C10: when the last non-sustain step scheduled on a tonal channel is a rest
\* at time t, the channel's gain is 0 at t + 3 ms (at the current time, when
\* that is later) and every automation event from then on has the value 0.
C10_RestSilencesChannel ==
  \A c \in Channels :
    (voices[c].exists /\ lastNote[c].kind = "rest")
    => /\ ValueAt(voices[c].gain,
                  IF now > lastNote[c].t + Release THEN now ELSE lastNote[c].t + Release) = 0
       /\ \A i \in DOMAIN voices[c].gain.evs :
            voices[c].gain.evs[i].t >= lastNote[c].t + Release
            => voices[c].gain.evs[i].v = 0

C10_Witness ==
  \E c \in Channels :
    /\ voices[c].exists /\ lastNote[c].kind = "rest" /\ lastNote[c].after = "note"
    /\ lastOp.op = "schedule" /\ Len(lastOp.steps) > 0
    /\ now < lastNote[c].t
    /\ ValueAt(voices[c].gain, now) > 0

\* The automation the k-th step of the example loop is to put on pulse1 at time t.
ExampleGainEvents(k, t) ==
  IF k \in {0, 3}
  THEN << [k |-> "set", v |-> 0, t |-> t],
          [k |-> "ramp", v |-> ExampleSong.pulse1Vol, t |-> t + Attack] >>
  ELSE IF k = 2 THEN << >>
  ELSE << [k |-> "set", v |-> 0, t |-> t + Release] >>
ExampleFreqEvents(k, t) ==
  IF k \in {0, 3} THEN << [k |-> "set", v |-> 44000, t |-> t] >> ELSE << >>

\* The events of the steps from the i-th on, in order; the n-th step of the
\* session (n = 0, 1, ...) is step n mod 8, due n * 200 ms after the first.
RECURSIVE ExampleEvents(_, _, _, _)
ExampleEvents(kind, first, n, count) ==
  IF count = 0 THEN << >>
  ELSE (IF kind = "gain" THEN ExampleGainEvents(n % 8, first + n * Ms(200))
        ELSE ExampleFreqEvents(n % 8, first + n * Ms(200)))
       \o ExampleEvents(kind, first, n + 1, count - 1)

\* C11: on the example track a tick adds to pulse1 exactly: note-on (gain 0, then
\* attack to the channel volume, frequency 440) for steps 0 and 3, a silence for
\* steps 1 and 4..7, nothing for step 2, the n-th step of the session being due
\* n * 200 ms after the first (so step 0 of the next iteration 1.6 s after the
\* first); the channel is silent through step 2.
C11_ExampleTrackEvents ==
  [][ (TickStep /\ isPlaying /\ currentSong = "example")
      => /\ voices'["pulse1"].gain.evs =
              voices["pulse1"].gain.evs
              \o ExampleEvents("gain", firstStepTime, stepsScheduled, Len(lastOp'.steps))
         /\ voices'["pulse1"].freq.evs =
              voices["pulse1"].freq.evs
              \o ExampleEvents("freq", firstStepTime, stepsScheduled, Len(lastOp'.steps))
         /\ \A i \in DOMAIN lastOp'.steps :
              /\ lastOp'.steps[i].step = (stepsScheduled + i - 1) % 8
              /\ lastOp'.steps[i].time = firstStepTime + (stepsScheduled + i - 1) * Ms(200)
              /\ lastOp'.steps[i].step = 2
                 => /\ ValueAt(voices'["pulse1"].gain, lastOp'.steps[i].time) = 0
                    /\ ValueAt(voices'["pulse1"].gain, lastOp'.steps[i].time + Ms(199)) = 0 ]_vars

C11_Witness ==
  /\ lastOp.op = "schedule" /\ currentSong = "example" /\ isPlaying
  /\ stepsScheduled = 9
  /\ \E i \in DOMAIN lastOp.steps :
       lastOp.steps[i].step = 0 /\ lastOp.steps[i].time = firstStepTime + Ms(1600)
  /\ \E i \in DOMAIN voices["pulse1"].gain.evs :
       /\ voices["pulse1"].gain.evs[i].k = "ramp"
       /\ voices["pulse1"].gain.evs[i].t = firstStepTime + Ms(1600) + Attack

\* The last automation event of a parameter.
LastEvent(p) == p.evs[Len(p.evs)]

\* C12: setVolume on a muted engine stores the volume and leaves the master
\* gain at 0, with nothing else scheduled from the current time on; the stored
\* volume reaches the master gain when toggleMute un-mutes.
C12_MutedVolumeIsSilent ==
  [][ /\ (CallStep /\ lastOp'.op = "setVolume" /\ Ready /\ muted)
         => /\ muted' /\ volume' = Clamp(lastOp'.vol)
            /\ ValueAt(masterGain'.gain, now) = 0
            /\ LastEvent(masterGain'.gain) = [k |-> "set", v |-> 0, t |-> now]
      /\ (CallStep /\ lastOp'.op = "toggleMute" /\ Ready /\ muted)
         => /\ ~muted' /\ volume' = volume
            /\ ValueAt(masterGain'.gain, now) = volume
            /\ LastEvent(masterGain'.gain) = [k |-> "set", v |-> volume, t |-> now] ]_vars

C12_Witness ==
  /\ lastOp.op = "setVolume" /\ lastOp.ready /\ muted /\ isPlaying /\ opCount = 3
  /\ lastOp.vol = GainUnit \div 4 /\ volume = GainUnit \div 4
  /\ ValueAt(masterGain.gain, now) = 0

\* C13: setVolume(v) stores min(1, max(0, v)), the stored volume is always in
\* [0, 1], and on an engine that is not muted the master gain is set to the
\* stored value at the current time.
C13_VolumeClamped ==
  [][ /\ volume' >= 0 /\ volume' <= GainUnit
      /\ (CallStep /\ lastOp'.op = "setVolume")
         => /\ volume' = (IF lastOp'.vol < 0 THEN 0
                          ELSE IF lastOp'.vol > GainUnit THEN GainUnit ELSE lastOp'.vol)
            /\ (Ready /\ ~muted)
               => /\ ValueAt(masterGain'.gain, now) = volume'
                  /\ LastEvent(masterGain'.gain) = [k |-> "set", v |-> volume', t |-> now] ]_vars

C13_Witness ==
  /\ lastOp.op = "setVolume" /\ lastOp.ready /\ ~muted /\ isPlaying
  /\ lastOp.vol > GainUnit /\ volume = GainUnit
  /\ ValueAt(masterGain.gain, now) = GainUnit

\* C14: toggleMute flips the muted flag and leaves a fade of the master gain
\* that is still pending (a ramp that ends after the current time) scheduled.
C14_ToggleMuteKeepsFade ==
  [][ (CallStep /\ lastOp'.op = "toggleMute" /\ Ready)
      => /\ muted' = ~muted
         /\ \A i \in DOMAIN masterGain.gain.evs :
              (masterGain.gain.evs[i].k = "ramp" /\ masterGain.gain.evs[i].t > now)
              => \E j \in DOMAIN masterGain'.gain.evs :
                   /\ masterGain'.gain.evs[j].k = "ramp"
                   /\ masterGain'.gain.evs[j].t = masterGain.gain.evs[i].t ]_vars

\* A step made by the teardown that stop() deferred.
TeardownStep == Len(timeouts') < Len(timeouts)

\* C15: stop() on a playing engine starts a ramp of the master gain to 0 that
\* ends 300 ms later and tears nothing down; the session is torn down by the
\* deferred teardown only when 350 ms have passed since every such stop() and
\* no fade-out is still pending.
C15_StopDefersTeardown ==
  [][ /\ (CallStep /\ lastOp'.op = "stop" /\ Ready /\ isPlaying)
         => /\ LastEvent(masterGain'.gain) = [k |-> "ramp", v |-> 0, t |-> now + FadeOut]
            /\ timeouts' = Append(timeouts, now + StopDelay)
            /\ UNCHANGED << voices, schedulerTimer, intervals, isPlaying, currentSong,
                            currentTrackName >>
      /\ (TeardownStep /\ isPlaying)
         => /\ ~isPlaying' /\ voices' = NoVoices /\ intervals' = {} /\ schedulerTimer' = 0
            /\ \A i \in DOMAIN timeouts : timeouts[i] <= now
            /\ \A i \in DOMAIN masterGain.gain.evs :
                 (masterGain.gain.evs[i].k = "ramp" /\ masterGain.gain.evs[i].v = 0)
                 => masterGain.gain.evs[i].t <= now ]_vars

\* C16: at most one interval timer is active, and it is the one the engine
\* holds; the tonal voices exist all three or not at all; a play that starts a
\* session leaves exactly its own timer active and three new voices, those of
\* the session before having been disposed.
C16_OneSession ==
  [][ /\ Cardinality(intervals') <= 1
      /\ intervals' \subseteq {schedulerTimer'}
      /\ (voices' = NoVoices \/ \A c \in Channels : voices'[c].exists)
      /\ (CallStep /\ lastOp'.op = "play" /\ sessions' = sessions + 1)
         => /\ schedulerTimer' # 0 /\ intervals' = {schedulerTimer'}
            /\ voices' = createOscillators(SONGS[lastOp'.arg])
            /\ PendingOf(voices, now) \subseteq orphans' ]_vars

C16_Witness ==
  /\ lastOp.op = "play" /\ lastOp.ready /\ lastOp.wasPlaying
  /\ lastOp.from = "menu" /\ lastOp.arg = "game"
  /\ sessions = 2 /\ Cardinality(intervals) = 1 /\ orphans # {}
  /\ \A c \in Channels : voices[c].exists

\* C17: when the first tick of a session runs less than LOOKAHEAD after play and
\* every later tick less than LOOKAHEAD after the one before, no step is
\* scheduled with a timestamp earlier than the clock its tick reads.
C17_NoStepInThePast ==
  [][ (TickStep /\ isPlaying)
      => \A i \in DOMAIN lastOp'.steps : lastOp'.steps[i].time >= now ]_vars

\* C18: when the teardown deferred by stop() runs on a playing engine, the
\* master gain is 0.
C18_TeardownWhenSilent ==
  [][ (TeardownStep /\ isPlaying) => ValueAt(masterGain.gain, now) = 0 ]_vars

\* C19: as long as the last public call was play(X) of a defined track on an
\* initialised engine, the engine is playing X.
C19_PlayStaysPlaying ==
  (lastOp.call = "play" /\ lastOp.callReady /\ lastOp.callArg \in DOMAIN SONGS)
  => (isPlaying /\ currentTrackName = lastOp.callArg)

\* C20: at the end of a tick that runs while playing, the next-step time is at
\* least the clock the tick read plus LOOKAHEAD and less than that plus one step
\* duration; the steps the tick scheduled were all due before clock + LOOKAHEAD,
\* and the steps scheduled in the session are those due before the next-step time.
C20_LookaheadCovered ==
  [][ (TickStep /\ isPlaying /\ IsSongData(currentSong))
      => /\ nextStepTime' >= now + LOOKAHEAD
         /\ nextStepTime' < now + LOOKAHEAD + SecondsPerStep(SONGS[currentSong])
         /\ \A i \in DOMAIN lastOp'.steps : lastOp'.steps[i].time < now + LOOKAHEAD
         /\ nextStepTime' = firstStepTime
                            + stepsScheduled' * SecondsPerStep(SONGS[currentSong]) ]_vars

C20_Witness ==
  /\ lastOp.op = "schedule" /\ isPlaying /\ Len(lastOp.steps) >= 3
  /\ stepsScheduled > Len(lastOp.steps)
  /\ nextStepTime >= now + LOOKAHEAD
  /\ lastOp.steps[Len(lastOp.steps)].time < now

\* The song data the engine runs on: a track of SONGS or the track of 8 steps.
LoadedSong == IF currentSong = "example" THEN ExampleSong ELSE SONGS[currentSong]

\* C21: within a session the steps are scheduled in cyclic order 0, 1, ..., L-1,
\* 0, 1, ... beginning with step 0, none skipped and none scheduled twice,
\* however the ticks are spaced: the n-th step a session schedules is step
\* n mod L, and the current step index stays in [0, L).
C21_CyclicOrder ==
  [][ /\ (isPlaying' /\ currentSong' # "null" /\ IsSongData(currentSong'))
           => /\ currentStep' \in 0 .. (Len(LoadedSong'.pulse1) - 1)
              /\ currentStep' = stepsScheduled' % Len(LoadedSong'.pulse1)
      /\ (TickStep /\ isPlaying /\ currentSong # "null")
           => \A i \in DOMAIN lastOp'.steps :
                lastOp'.steps[i].step = (stepsScheduled + i - 1) % Len(LoadedSong.pulse1)
    ]_vars

\* A late tick has scheduled the last step of the loop and then step 0 again.
C21_Witness ==
  /\ lastOp.op = "schedule" /\ isPlaying /\ currentSong = "example"
  /\ \E i \in DOMAIN lastOp.steps :
       /\ i + 1 \in DOMAIN lastOp.steps
       /\ lastOp.steps[i].step = Len(ExampleSong.pulse1) - 1
       /\ lastOp.steps[i + 1].step = 0
  /\ stepsScheduled > Len(ExampleSong.pulse1)

\* ceil(a / b) for positive b.
CeilDiv(a, b) == (a + b - 1) \div b

\* C22: one tick schedules at most ceil(LOOKAHEAD / step_duration) + 1 steps,
\* whatever time has passed since the tick before it.
C22_StepsPerTickBounded ==
  [][ (TickStep /\ isPlaying /\ currentSong # "null")
        => Len(lastOp'.steps) <= CeilDiv(LOOKAHEAD, SecondsPerStep(LoadedSong)) + 1
    ]_vars

\* The last of the steps 0 .. j of a channel that is not a sustain step (-1 when
\* there is none).
RECURSIVE LastNonSustain(_, _)
LastNonSustain(notes, j) ==
  IF j < 0 THEN 0 - 1
  ELSE IF At(notes, j % Len(notes)) # S THEN j
  ELSE LastNonSustain(notes, j - 1)

\* C23: at every scheduled step each tonal channel is in the state the most
\* recent non-sustain step in scheduling order left it in, across the end of the
\* loop as well: sounding at that step's frequency and the channel volume after
\* a note, silent after a rest, silent before the session's first such step.
C23_SustainCarriesAcrossLoop ==
  [][ (TickStep /\ isPlaying /\ currentSong # "null")
        => \A i \in DOMAIN lastOp'.steps : \A c \in Channels :
             LET song == LoadedSong
                 notes == ChannelNotes(song, c)
                 j == LastNonSustain(notes, stepsScheduled + i - 1)
                 v == At(notes, j % Len(notes))
                 x == lastOp'.steps[i].time + SecondsPerStep(song) - 1
             IN IF j < 0 THEN ValueAt(voices'[c].gain, x) = 0
                ELSE IF v > 0
                THEN /\ ValueAt(voices'[c].gain, x) = ChannelVol(song, c)
                     /\ ValueAt(voices'[c].freq, x) = v
                ELSE ValueAt(voices'[c].gain, x) = 0
    ]_vars

\* A tick has scheduled the sustain steps that begin the second pass of the
\* loop: pulse2 came to the loop boundary on sustain steps after a note, and the
\* triangle still sounds the note of step 4 on step 0.
C23_Witness ==
  /\ lastOp.op = "schedule" /\ isPlaying /\ currentSong = "example"
  /\ At(ExampleSong.pulse2, Len(ExampleSong.pulse2) - 1) = S
  /\ At(ExampleSong.triangle, 0) = S
  /\ \E i \in DOMAIN lastOp.steps :
       /\ lastOp.steps[i].step = 0
       /\ stepsScheduled - Len(lastOp.steps) + i - 1 = Len(ExampleSong.pulse1)
       /\ ValueAt(voices["tri"].gain, lastOp.steps[i].time + Attack) = ExampleSong.triVol
       /\ ValueAt(voices["tri"].freq, lastOp.steps[i].time + Attack) = _A2

\* C24: play(B) while another track is playing starts the new session from
\* scratch, wherever the old one was: step index 0, first step due 50 ms after
\* the call, the three tonal gains at 0 with nothing scheduled, the automation
\* that was pending on the master gain gone, and the master gain set to 0 at the
\* call time and ramped linearly to the effective volume, reached 400 ms later.
C24_SwitchStartsFromScratch ==
  [][ (CallStep /\ lastOp'.op = "play" /\ lastOp'.ready /\ lastOp'.wasPlaying
         /\ lastOp'.arg \in DOMAIN SONGS /\ lastOp'.from \in DOMAIN SONGS
         /\ lastOp'.from # lastOp'.arg)
      => LET eff == IF muted THEN 0 ELSE volume
         IN /\ currentStep' = 0
            /\ nextStepTime' = now + Ms(50)
            /\ \A c \in Channels :
                 /\ voices'[c].exists
                 /\ voices'[c].gain = [val |-> 0, evs |-> << >>]
            /\ SelectSeq(masterGain'.gain.evs, LAMBDA e : e.t >= now)
                 = << [k |-> "set", v |-> 0, t |-> now],
                      [k |-> "ramp", v |-> eff, t |-> now + Ms(400)] >>
            /\ ValueAt(masterGain'.gain, now) = 0
            /\ ValueAt(masterGain'.gain, now + Ms(200)) = eff \div 2
            /\ ValueAt(masterGain'.gain, now + Ms(400)) = eff
    ]_vars

\* play('menu') came 100 ms or more into a 'game' session that had scheduled
\* steps and whose fade-in was still pending.
C24_Witness ==
  /\ lastOp.op = "play" /\ lastOp.ready /\ lastOp.wasPlaying
  /\ lastOp.from = "game" /\ lastOp.arg = "menu"
  /\ sessions = 2 /\ now > 0 /\ now < Ms(400) /\ orphans # {}
  /\ currentStep = 0 /\ nextStepTime = now + Ms(50) /\ ~muted
  /\ Len(masterGain.gain.evs) >= 2

\* C25: a percussive voice, once created, is never modified or cancelled by any
\* later operation (tick, play, stop, teardown, setVolume, toggleMute): every
\* voice is still there unchanged after every step, until the clock reaches
\* its stop time, new voices only being added after it; a voice starts at the
\* timestamp of its step and stops 0.3 s later, after the end of its decay.
C25_PercussiveVoicesLeftAlone ==
  [][ /\ LET alive == IF now' = now THEN drums
                      ELSE SelectSeq(drums, LAMBDA v : v.stop > now')
         IN /\ Len(drums') >= Len(alive)
            /\ SubSeq(drums', 1, Len(alive)) = alive
            /\ \A i \in (Len(alive) + 1) .. Len(drums') :
                 /\ TickStep
                 /\ \E j \in DOMAIN lastOp'.steps : lastOp'.steps[j].time = drums'[i].start
      /\ \A i \in DOMAIN drums' :
           /\ drums'[i].stop = drums'[i].start + Ms(300)
           /\ drums'[i].start < drums'[i].decayEnd
           /\ drums'[i].decayEnd < drums'[i].stop
    ]_vars

\* The session was torn down, or replaced by another track's, while a
\* percussive voice it had created was still to sound.
C25_Witness ==
  /\ lastOp.op \in {"stopImmediate", "play"} /\ lastOp.ready /\ sessions >= 1
  /\ opCount = 2
  /\ \E i \in DOMAIN drums : drums[i].stop > now /\ drums[i].start >= now

\* C26: on an initialised engine the session fields agree in every reachable
\* state: the playing flag is true iff a current song is loaded, iff the current
\* track name is non-empty, iff the scheduler timer is active, iff the three
\* tonal voices exist; and the step index is 0 when nothing is playing.
C26_SessionFieldsAgree ==
  Ready =>
    /\ isPlaying <=> currentSong # "null"
    /\ isPlaying <=> currentTrackName # ""
    /\ isPlaying <=> (schedulerTimer # 0 /\ schedulerTimer \in intervals)
    /\ isPlaying <=> (\A c \in Channels : voices[c].exists)
    /\ isPlaying <=> (\E c \in Channels : voices[c].exists)
    /\ ~isPlaying => currentStep = 0

\* C27: once a session is torn down its timer is cleared, so no tick of that
\* session runs any more, and nothing is scheduled while the engine is Stopped:
\* a tick that runs while nothing is playing changes no state, and between two
\* Stopped states no tonal event is enqueued and no percussive voice is created;
\* after a switch only the new session's timer is active.
C27_NoTickAfterTeardown ==
  [][ /\ (isPlaying /\ ~isPlaying')
           => /\ schedulerTimer \notin intervals'
              /\ intervals' = {}
              /\ schedulerTimer' = 0
      /\ (isPlaying /\ isPlaying' /\ sessions' # sessions)
           => intervals' = {schedulerTimer'}
      /\ (TickStep /\ ~isPlaying)
           => UNCHANGED << engine, runtime, stepsScheduled, lastNote >>
      /\ (~isPlaying /\ ~isPlaying')
           => /\ voices' = voices
              /\ Len(drums') <= Len(drums)
              /\ stepsScheduled' = stepsScheduled
              /\ intervals' = intervals
    ]_vars

\* A session that had scheduled steps was torn down and the clock has moved on
\* since, with no timer left.
C27_Witness ==
  /\ Ready /\ ~isPlaying /\ sessions >= 1 /\ stepsScheduled > 0
  /\ lastOp.op \in {"stopImmediate", "stopTimeout"}
  /\ intervals = {} /\ schedulerTimer = 0
  /\ now >= firstStepTime + StopDelay

\* What the hit table of the specification asks of a percussive voice of kind k
\* on a channel of volume vol at time t (Q in tenths, 1 by default).
HitVoice(k, vol, t) ==
  IF k = 1 THEN [filter |-> "lowpass", frequency |-> 180, q |-> 10,
                 peak |-> (vol * 25) \div 10, decayEnd |-> t + Ms(150), start |-> t]
  ELSE IF k = 2 THEN [filter |-> "bandpass", frequency |-> 1200, q |-> 8,
                      peak |-> (vol * 18) \div 10, decayEnd |-> t + Ms(100), start |-> t]
  ELSE IF k = 3 THEN [filter |-> "highpass", frequency |-> 8000, q |-> 10,
                      peak |-> (vol * 9) \div 10, decayEnd |-> t + Ms(40), start |-> t]
  ELSE [filter |-> "highpass", frequency |-> 6000, q |-> 10,
        peak |-> vol, decayEnd |-> t + Ms(180), start |-> t]

\* The fields of a percussive voice the hit table speaks of.
HitFields(v) ==
  [filter |-> v.filter, frequency |-> v.frequency, q |-> v.q, peak |-> v.peak,
   decayEnd |-> v.decayEnd, start |-> v.start]

\* One voice for every step from the i-th on whose noise value is a hit kind.
RECURSIVE HitsOf(_, _, _)
HitsOf(song, steps, i) ==
  IF i > Len(steps) THEN << >>
  ELSE LET k == At(song.noise, steps[i].step)
       IN (IF k \in 1 .. 4 THEN << HitVoice(k, song.noiseVol, steps[i].time) >> ELSE << >>)
          \o HitsOf(song, steps, i + 1)

\* The voices a tick has added.
AddedVoices == [i \in 1 .. (Len(drums') - Len(drums)) |-> HitFields(drums'[Len(drums) + i])]

C30_PulseWaveBuiltOnce ==
  [][ /\ \A c \in {"pulse1", "pulse2"} :
           (voices'[c].exists /\ voices'[c].wave.type = "custom")
             => /\ voices'[c].wave.zeroed = {0}
                /\ voices'[c].wave.harmonics = 1 .. 64
      /\ (sessions' # sessions /\ isPlaying' /\ IsSongData(currentSong'))
           => /\ stepsScheduled' = 0
              /\ voices'["pulse1"].wave.type = "custom"
              /\ voices'["pulse2"].wave.type = "custom"
              /\ voices'["pulse1"].wave.duty = LoadedSong'.pulse1Duty
              /\ voices'["pulse2"].wave.duty = LoadedSong'.pulse2Duty
      /\ (sessions' = sessions)
           => \A c \in Channels :
                (voices[c].exists /\ voices'[c].exists) => voices'[c].wave = voices[c].wave
    ]_vars

\* The tick just run has scheduled step i.
Scheduled(i) ==
  lastOp.op = "schedule" /\ \E j \in DOMAIN lastOp.steps : lastOp.steps[j].step = i

\* C28: while the session keeps playing, ticks keep firing and the clock keeps
\* advancing, every step index of the track is scheduled again and again: the
\* scheduler does not stall and does not stop at the end of the sequence.
C28_EveryStepInfinitelyOften ==
  \A i \in 0 .. (Len(ExampleSong.pulse1) - 1) : [](isPlaying => <>Scheduled(i))

\* A tick has scheduled the last step of a pass and the first step of the next
\* one, in a session whose first pass is over.
C28_Witness ==
  /\ isPlaying /\ currentSong = "example" /\ now > firstStepTime + LoopDuration
  /\ lastOp.op = "schedule"
  /\ \E j \in DOMAIN lastOp.steps :
       /\ j + 1 \in DOMAIN lastOp.steps
       /\ lastOp.steps[j].step = Len(ExampleSong.pulse1) - 1
       /\ lastOp.steps[j + 1].step = 0

====
